---- MODULE Spec2Model ----
(***************************************************************************)
(* Model of pics (src/src/pics/cli.py): filename sequencing, rename        *)
(* mapping, week bucketing, format classification, and the import and      *)
(* organize passes over a filesystem.                                      *)
(*                                                                         *)
(* Strings are sequences of one-character strings, so that pathlib's       *)
(* stem/suffix split, re.findall(r"\d+"), int(), str.lower() and the       *)
(* "{i:04d}" format are computed and not assumed.                          *)
(* Optional[T] is <<>> (None) or <<x>>.                                    *)
(***************************************************************************)
EXTENDS Integers, Sequences, FiniteSets, TLC

VARIABLES
    pc,                                 \* position in the pass being run
    filename, key,                      \* extract_number_from_filename
    listing, prefix,                    \* organize_photos: iterdir() and --prefix
    jpeg_files, cr3_files,              \* find_photo_files
    jpeg_mapping, cr3_mapping,          \* create_filename_mapping
    jpeg_remapping, cr3_remapping,      \* the same, on the renamed files
    date, week_number,                  \* calculate_week_number
    args,                               \* the parsed command line
    filesystem,                         \* the source tree and the cwd
    image_files, idx, file_date,        \* import_photos: the filtering loop
    filtered_files, weekly_groups, warnings,
    copy_weeks, copy_week_idx, copy_idx,       \* import_photos: the copy loop
    created_week_dirs,
    organize_idx,                       \* import_photos: the organize loop
    target_path, org_dry_run,           \* organize_photos: its parameters
    move_idx,                           \* organize_photos: the move loops
    attempts                            \* every shutil.copy2 / shutil.move call made

keyVars  == <<filename, key>>
mapVars  == <<listing, prefix, jpeg_files, cr3_files, jpeg_mapping, cr3_mapping,
              jpeg_remapping, cr3_remapping>>
weekVars == <<date, week_number>>
importVars == <<image_files, idx, file_date, filtered_files, weekly_groups, warnings,
                copy_weeks, copy_week_idx, copy_idx, created_week_dirs, organize_idx>>
orgVars  == <<target_path, org_dry_run, move_idx>>
mainVars == <<args, filesystem, importVars, orgVars, attempts>>
vars == <<pc, keyVars, mapVars, weekVars, mainVars>>

----------------------------------------------------------------------------
(* Bounds of the model *)

MaxLen == 5        \* longest filename given to extract_number_from_filename

----------------------------------------------------------------------------
(* Python values *)

None == <<>>
Some(x) == <<x>>

UpperChars == <<"A","B","C","D","E","F","G","H","I","J","K","L","M",
                "N","O","P","Q","R","S","T","U","V","W","X","Y","Z">>
LowerChars == <<"a","b","c","d","e","f","g","h","i","j","k","l","m",
                "n","o","p","q","r","s","t","u","v","w","x","y","z">>
DigitChars == <<"0","1","2","3","4","5","6","7","8","9">>

IsDigit(c) == \E i \in 1..Len(DigitChars) : DigitChars[i] = c

DigitVal(c) == (CHOOSE i \in 1..Len(DigitChars) : DigitChars[i] = c) - 1

\* str.lower() on one character, then on a string
LowerChar(c) ==
    IF \E i \in 1..Len(UpperChars) : UpperChars[i] = c
    THEN LowerChars[CHOOSE i \in 1..Len(UpperChars) : UpperChars[i] = c]
    ELSE c

Lower(s) == [i \in 1..Len(s) |-> LowerChar(s[i])]

\* str.rfind("."): the 1-based position of the last dot, 0 when there is none
RFindDot(s) ==
    IF \E i \in 1..Len(s) : s[i] = "."
    THEN CHOOSE i \in 1..Len(s) : s[i] = "." /\ \A j \in (i+1)..Len(s) : s[j] # "."
    ELSE 0

\* pathlib.PurePath.suffix of a bare name: the last dot and what follows it,
\* unless that dot is the first or the last character of the name
Suffix(name) ==
    LET i == RFindDot(name)
    IN  IF 1 < i /\ i < Len(name) THEN SubSeq(name, i, Len(name)) ELSE <<>>

\* pathlib.PurePath.stem of a bare name
Stem(name) ==
    LET i == RFindDot(name)
    IN  IF 1 < i /\ i < Len(name) THEN SubSeq(name, 1, i - 1) ELSE name

\* re.findall(r"\d+", s): the maximal digit runs of s, left to right.
\* run is the run being read, out the runs already closed.
RECURSIVE FindAllFrom(_, _, _, _)
FindAllFrom(s, i, run, out) ==
    IF i > Len(s)
    THEN IF run = <<>> THEN out ELSE Append(out, run)
    ELSE IF IsDigit(s[i])
         THEN FindAllFrom(s, i + 1, Append(run, s[i]), out)
         ELSE FindAllFrom(s, i + 1, <<>>,
                          IF run = <<>> THEN out ELSE Append(out, run))

FindAllDigits(s) == FindAllFrom(s, 1, <<>>, <<>>)

\* int(s) of a string of decimal digits
RECURSIVE ParseInt(_)
ParseInt(s) ==
    IF s = <<>> THEN 0
    ELSE 10 * ParseInt(SubSeq(s, 1, Len(s) - 1)) + DigitVal(s[Len(s)])

\* a plausible slip: the digits are searched in the whole name, extension included
extract_number_keeps_ext(name) ==
    LET numbers == FindAllDigits(name)
    IN  IF numbers # <<>> THEN Some(ParseInt(numbers[Len(numbers)])) ELSE None

\* a plausible slip: numbers[0] instead of numbers[-1]
extract_number_first_run(name) ==
    LET numbers == FindAllDigits(Stem(name))
    IN  IF numbers # <<>> THEN Some(ParseInt(numbers[1])) ELSE None

extract_number_from_filename(name) ==
    LET name_without_ext == Stem(name)
        numbers == FindAllDigits(name_without_ext)
    IN  IF numbers # <<>> THEN Some(ParseInt(numbers[Len(numbers)])) ELSE None

----------------------------------------------------------------------------
(* create_filename_mapping *)

\* the sort key: an int, or float("inf") for a filename with no number
FloatInf == [inf |-> TRUE, n |-> 0]
Num(n) == [inf |-> FALSE, n |-> n]

\* a < b on sort keys
KeyLess(a, b) == ~a.inf /\ (b.inf \/ a.n < b.n)

\* file_numbers: the (file_path, number or inf) pairs, in the order of files
FileNumbers(fs) ==
    [i \in 1..Len(fs) |->
        LET number == extract_number_from_filename(fs[i])
        IN  <<fs[i], IF number # None THEN Num(number[1]) ELSE FloatInf>>]

\* list.sort(key=lambda x: x[1]) is stable: each pair goes after every pair
\* whose key is not greater than its own
RECURSIVE InsertByKey(_, _)
InsertByKey(sorted, x) ==
    IF sorted = <<>> THEN <<x>>
    ELSE IF KeyLess(x[2], sorted[Len(sorted)][2])
         THEN Append(InsertByKey(SubSeq(sorted, 1, Len(sorted) - 1), x),
                     sorted[Len(sorted)])
         ELSE Append(sorted, x)

RECURSIVE SortByKey(_)
SortByKey(pairs) ==
    IF pairs = <<>> THEN <<>>
    ELSE InsertByKey(SortByKey(SubSeq(pairs, 1, Len(pairs) - 1)), pairs[Len(pairs)])

\* str(i) for i >= 0
RECURSIVE Str(_)
Str(i) ==
    IF i < 10 THEN <<DigitChars[i + 1]>>
    ELSE Append(Str(i \div 10), DigitChars[(i % 10) + 1])

RECURSIVE ZeroPad(_, _)
ZeroPad(s, width) == IF Len(s) >= width THEN s ELSE ZeroPad(<<"0">> \o s, width)

\* f"{i:04d}"
Format04d(i) == ZeroPad(Str(i), 4)

\* f"{prefix}-{i:04d}{file_path.suffix.lower()}" when prefix is truthy,
\* file_path.name otherwise
NewName(file_path, i, pfx) ==
    IF pfx # None /\ pfx[1] # <<>>
    THEN pfx[1] \o <<"-">> \o Format04d(i) \o Lower(Suffix(file_path))
    ELSE file_path

\* a plausible slip: the extracted number is formatted, not the running index
create_filename_mapping_by_number(fs, pfx) ==
    LET file_numbers == SortByKey(FileNumbers(fs))
    IN  [f \in {file_numbers[i][1] : i \in 1..Len(file_numbers)} |->
            LET i == CHOOSE j \in 1..Len(file_numbers) : file_numbers[j][1] = f
            IN  NewName(f, IF file_numbers[i][2].inf THEN 0 ELSE file_numbers[i][2].n, pfx)]

\* a plausible slip: the sort is left out, the indices follow the input order
create_filename_mapping_unsorted(fs, pfx) ==
    LET file_numbers == FileNumbers(fs)
    IN  [f \in {file_numbers[i][1] : i \in 1..Len(file_numbers)} |->
            LET i == CHOOSE j \in 1..Len(file_numbers) : file_numbers[j][1] = f
            IN  NewName(f, i, pfx)]

\* the dict {file_path: new_name}; on a repeated file_path the later index wins
create_filename_mapping(fs, pfx) ==
    IF fs = <<>> THEN <<>>
    ELSE
    LET file_numbers == SortByKey(FileNumbers(fs))
    IN  [f \in {file_numbers[i][1] : i \in 1..Len(file_numbers)} |->
            LET i == CHOOSE j \in 1..Len(file_numbers) :
                        /\ file_numbers[j][1] = f
                        /\ \A k \in (j+1)..Len(file_numbers) : file_numbers[k][1] # f
            IN  NewName(f, i, pfx)]

----------------------------------------------------------------------------
(* datetime, calculate_week_number, is_weekly_photo_day *)

DateTime(y, m, d, h) == [year |-> y, month |-> m, day |-> d, hour |-> h]

\* datetime._is_leap
IsLeap(y) == y % 4 = 0 /\ (y % 100 # 0 \/ y % 400 = 0)

\* datetime._days_in_month
DaysInMonth(y, m) ==
    IF m = 2 THEN (IF IsLeap(y) THEN 29 ELSE 28)
    ELSE IF m \in {4, 6, 9, 11} THEN 30 ELSE 31

\* datetime._days_before_year
DaysBeforeYear(y) ==
    LET y1 == y - 1
    IN  y1 * 365 + (y1 \div 4) - (y1 \div 100) + (y1 \div 400)

\* datetime._DAYS_BEFORE_MONTH, for a common year
DAYS_BEFORE_MONTH == <<0, 31, 59, 90, 120, 151, 181, 212, 243, 273, 304, 334>>

\* datetime._days_before_month
DaysBeforeMonth(y, m) ==
    DAYS_BEFORE_MONTH[m] + (IF m > 2 /\ IsLeap(y) THEN 1 ELSE 0)

\* date.toordinal(): 0001-01-01 is day 1. The time of day is not part of it.
ToOrdinal(dt) == DaysBeforeYear(dt.year) + DaysBeforeMonth(dt.year, dt.month) + dt.day

\* datetime < datetime
DateTimeLess(a, b) ==
    \/ ToOrdinal(a) < ToOrdinal(b)
    \/ ToOrdinal(a) = ToOrdinal(b) /\ a.hour < b.hour

\* datetime.weekday(): Monday is 0
Weekday(dt) == (ToOrdinal(dt) + 6) % 7

\* datetime(2024, 11, 13)
WEEKLY_START_DATE == DateTime(2024, 11, 13, 0)

Max(a, b) == IF a >= b THEN a ELSE b

\* a plausible slip: the clamp max(1, ...) left out
calculate_week_number_unclamped(dt) ==
    LET days_since_start == ToOrdinal(dt) - ToOrdinal(WEEKLY_START_DATE)
    IN  (days_since_start \div 7) + 1

\* // is floor division, as \div is
calculate_week_number(dt) ==
    LET days_since_start == ToOrdinal(dt) - ToOrdinal(WEEKLY_START_DATE)
        week_number_ == (days_since_start \div 7) + 1
    IN  Max(1, week_number_)

is_weekly_photo_day(dt) == Weekday(dt) = 2

----------------------------------------------------------------------------
(* find_photo_files *)

jpeg_extensions == {<<".", "j", "p", "g">>, <<".", "j", "p", "e", "g">>}
cr3_extensions == {<<".", "c", "r", "3">>}

\* a plausible slip: the suffix is compared as it is, .lower() left out
RECURSIVE find_photo_files_case_sensitive(_)
find_photo_files_case_sensitive(entries) ==
    IF entries = <<>> THEN [jpeg |-> <<>>, cr3 |-> <<>>]
    ELSE LET rest == find_photo_files_case_sensitive(SubSeq(entries, 1, Len(entries) - 1))
             file_path == entries[Len(entries)]
             ext == Suffix(file_path.name)
         IN  IF ~file_path.is_file THEN rest
             ELSE IF ext \in jpeg_extensions
                  THEN [rest EXCEPT !.jpeg = Append(@, file_path.name)]
             ELSE IF ext \in cr3_extensions
                  THEN [rest EXCEPT !.cr3 = Append(@, file_path.name)]
             ELSE rest

\* the loop over directory.iterdir(): entries is the listing, in its order;
\* the result is the pair (jpeg_files, cr3_files)
RECURSIVE find_photo_files(_)
find_photo_files(entries) ==
    IF entries = <<>> THEN [jpeg |-> <<>>, cr3 |-> <<>>]
    ELSE LET rest == find_photo_files(SubSeq(entries, 1, Len(entries) - 1))
             file_path == entries[Len(entries)]
             ext == Lower(Suffix(file_path.name))
         IN  IF ~file_path.is_file THEN rest
             ELSE IF ext \in jpeg_extensions
                  THEN [rest EXCEPT !.jpeg = Append(@, file_path.name)]
             ELSE IF ext \in cr3_extensions
                  THEN [rest EXCEPT !.cr3 = Append(@, file_path.name)]
             ELSE rest

----------------------------------------------------------------------------
(* The filesystem: a set of nodes, each a path (a sequence of names), a    *)
(* kind, and for a file the path its content was first found at.           *)

Node(path, kind, content) == [path |-> path, kind |-> kind, content |-> content]

DirNode(path) == Node(path, "dir", <<>>)

Parent(path) == SubSeq(path, 1, Len(path) - 1)

\* Path.name
BaseName(path) == path[Len(path)]

\* Path.exists(), Path.is_dir(), Path.is_file()
Exists(fsys, path) == \E n \in fsys : n.path = path
IsDir(fsys, path)  == \E n \in fsys : n.path = path /\ n.kind = "dir"
IsFile(fsys, path) == \E n \in fsys : n.path = path /\ n.kind = "file"

ContentAt(fsys, path) == (CHOOSE n \in fsys : n.path = path).content

\* the entries of a directory, and everything below it
Children(fsys, dir) ==
    {n \in fsys : Len(n.path) = Len(dir) + 1 /\ Parent(n.path) = dir}

Below(fsys, dir) ==
    {n \in fsys : Len(n.path) > Len(dir) /\ SubSeq(n.path, 1, Len(dir)) = dir}

\* Path.mkdir(exist_ok=True) on a path whose parent exists
Mkdir(fsys, path) == IF Exists(fsys, path) THEN fsys ELSE fsys \cup {DirNode(path)}

\* shutil.copy2(src, dst) that succeeds: dst is written, an older dst replaced
Copy2(fsys, src, dst) ==
    {n \in fsys : n.path # dst} \cup {Node(dst, "file", ContentAt(fsys, src))}

\* shutil.move(src, dst) that succeeds: the file is at dst and no longer at src
Move(fsys, src, dst) ==
    {n \in fsys : n.path # dst /\ n.path # src}
        \cup {Node(dst, "file", ContentAt(fsys, src))}

\* the orders a listing call may return a set of nodes in
Orderings(S) ==
    {o \in [1..Cardinality(S) -> S] : \A i, j \in 1..Cardinality(S) : i # j => o[i] # o[j]}

----------------------------------------------------------------------------
(* get_file_date, find_all_image_files, strptime *)

\* os.stat_result, or None when stat() raises
Stat(c, m) == [st_ctime |-> c, st_mtime |-> m]

\* cli.py 104-111: the earlier of the two times, None on any exception
get_file_date(st) ==
    IF st = None THEN None
    ELSE Some(IF DateTimeLess(st[1].st_mtime, st[1].st_ctime)
              THEN st[1].st_mtime ELSE st[1].st_ctime)

image_extensions == {<<".", "j", "p", "g">>, <<".", "j", "p", "e", "g">>,
                     <<".", "c", "r", "3">>, <<".", "r", "a", "w">>,
                     <<".", "p", "n", "g">>, <<".", "t", "i", "f", "f">>,
                     <<".", "t", "i", "f">>}

\* cli.py 168-170: what directory.rglob("*") yields is kept when it is a file
\* with an image extension
IsImageFile(n) ==
    n.kind = "file" /\ Lower(Suffix(BaseName(n.path))) \in image_extensions

\* the fields of s between the "-" separators
RECURSIVE SplitDash(_, _, _)
SplitDash(s, i, field) ==
    IF i > Len(s) THEN <<field>>
    ELSE IF s[i] = "-" THEN <<field>> \o SplitDash(s, i + 1, <<>>)
    ELSE SplitDash(s, i + 1, Append(field, s[i]))

AllDigits(s) == s # <<>> /\ \A i \in 1..Len(s) : IsDigit(s[i])

\* datetime.strptime(s, "%Y-%m-%d"): Some(datetime), or None for ValueError
Strptime(s) ==
    LET f == SplitDash(s, 1, <<>>)
    IN  IF /\ Len(f) = 3
           /\ AllDigits(f[1]) /\ AllDigits(f[2]) /\ AllDigits(f[3])
           /\ Len(f[1]) = 4 /\ Len(f[2]) <= 2 /\ Len(f[3]) <= 2
           /\ ParseInt(f[1]) >= 1
           /\ ParseInt(f[2]) \in 1..12
           /\ ParseInt(f[3]) >= 1
           /\ ParseInt(f[3]) <= DaysInMonth(ParseInt(f[1]), ParseInt(f[2]))
        THEN Some(DateTime(ParseInt(f[1]), ParseInt(f[2]), ParseInt(f[3]), 0))
        ELSE None

----------------------------------------------------------------------------
(* import_photos: the pieces of the filtering and copy loops *)

\* a plausible slip: <= where the code has <, the minimum itself shut out
filter_file_exclusive_minimum(file_date_, after_datetime, weekly) ==
    IF file_date_ = None THEN "warn"
    ELSE IF after_datetime # None /\ ~DateTimeLess(after_datetime[1], file_date_[1])
         THEN "skip"
    ELSE IF weekly /\ ~is_weekly_photo_day(file_date_[1]) THEN "skip"
    ELSE "keep"

\* cli.py 253-268: what becomes of a file with this date
filter_file(file_date_, after_datetime, weekly) ==
    IF file_date_ = None THEN "warn"
    ELSE IF after_datetime # None /\ DateTimeLess(file_date_[1], after_datetime[1])
         THEN "skip"
    ELSE IF weekly /\ ~is_weekly_photo_day(file_date_[1]) THEN "skip"
    ELSE "keep"

\* a plausible slip: the bucket is replaced, not appended to
group_add_replacing(groups, week, file_path) ==
    [w \in DOMAIN groups \cup {week} |->
        IF w = week THEN <<file_path>> ELSE groups[w]]

\* cli.py 273-275
group_add(groups, week, file_path) ==
    [w \in DOMAIN groups \cup {week} |->
        IF w = week
        THEN Append(IF week \in DOMAIN groups THEN groups[week] ELSE <<>>, file_path)
        ELSE groups[w]]

\* sorted(weekly_groups.keys())
RECURSIVE SortedKeys(_)
SortedKeys(S) ==
    IF S = {} THEN <<>>
    ELSE LET least == CHOOSE x \in S : \A y \in S : x <= y
         IN  <<least>> \o SortedKeys(S \ {least})

\* f"{week_num:02d}"
Format02d(i) == ZeroPad(Str(i), 2)

\* f"Week {week_num:02d}"
WeekDirName(week_num) == <<"W", "e", "e", "k", " ">> \o Format02d(week_num)

\* week_dir.name.split()[-1]: what follows the last blank
SplitLast(name) ==
    LET blanks == {i \in 1..Len(name) : name[i] = " "}
    IN  IF blanks = {} THEN name
        ELSE SubSeq(name, (CHOOSE i \in blanks : \A j \in blanks : j <= i) + 1, Len(name))

\* f"{prefix}-week-{week_num:02d}"
WeekPrefix(pfx, week_num) ==
    pfx \o <<"-", "w", "e", "e", "k", "-">> \o Format02d(week_num)

\* a plausible slip: no dry-run return, the copies are made all the same
after_report_ignoring_dry_run(dry_run) == "copy_week"

\* cli.py 301-313: a dry run prints and returns, a real run goes on to copy
after_report(dry_run) == IF dry_run THEN "done" ELSE "copy_week"

\* a plausible slip: no try/except round the transfer, the exception ends the run
after_transfer_reraising(ok, next_pc) == IF ok THEN next_pc ELSE "crashed"

\* cli.py 337-342, 517-522, 531-536: success or except, the loop goes on
after_transfer(ok, next_pc) == next_pc

----------------------------------------------------------------------------
(* organize_photos: the order of the move loops *)

\* extract_number_from_filename(f.name) or 0
MoveKey(name) ==
    LET number == extract_number_from_filename(name)
    IN  IF number = None THEN 0 ELSE number[1]

RECURSIVE InsertByMoveKey(_, _)
InsertByMoveKey(sorted, x) ==
    IF sorted = <<>> THEN <<x>>
    ELSE IF MoveKey(x) < MoveKey(sorted[Len(sorted)])
         THEN Append(InsertByMoveKey(SubSeq(sorted, 1, Len(sorted) - 1), x),
                     sorted[Len(sorted)])
         ELSE Append(sorted, x)

\* sorted(files, key=lambda f: extract_number_from_filename(f.name) or 0)
RECURSIVE MoveOrder(_)
MoveOrder(fls) ==
    IF fls = <<>> THEN <<>>
    ELSE InsertByMoveKey(MoveOrder(SubSeq(fls, 1, Len(fls) - 1)), fls[Len(fls)])

JPG == <<"J", "P", "G">>
RAW == <<"R", "A", "W">>

----------------------------------------------------------------------------
(* Idle values of the variables a specification does not use *)

IdleKey  == filename = <<>> /\ key = <<>>
IdleMap  ==
    /\ listing = <<>> /\ prefix = None
    /\ jpeg_files = <<>> /\ cr3_files = <<>>
    /\ jpeg_mapping = <<>> /\ cr3_mapping = <<>>
    /\ jpeg_remapping = <<>> /\ cr3_remapping = <<>>
IdleWeek == date = WEEKLY_START_DATE /\ week_number = 0
IdleImport ==
    /\ image_files = <<>> /\ idx = 0 /\ file_date = None
    /\ filtered_files = <<>> /\ weekly_groups = <<>> /\ warnings = 0
    /\ copy_weeks = <<>> /\ copy_week_idx = 0 /\ copy_idx = 0
    /\ created_week_dirs = <<>>
    /\ organize_idx = 0
IdleOrg  == target_path = <<>> /\ org_dry_run = FALSE /\ move_idx = 0
IdleMain == args = <<>> /\ filesystem = {} /\ IdleImport /\ IdleOrg /\ attempts = <<>>

----------------------------------------------------------------------------
(* SpecKey: extract_number_from_filename on every filename over KeyAlphabet *)

KeyAlphabet == {"a", "0", "1", "7", "_", "."}

RECURSIVE StringsUpTo(_, _)
StringsUpTo(A, n) ==
    IF n = 0 THEN {<<>>}
    ELSE LET shorter == StringsUpTo(A, n - 1)
         IN  shorter \cup {Append(s, c) : s \in shorter, c \in A}

KeyInit ==
    /\ pc = "extract"
    /\ filename \in StringsUpTo(KeyAlphabet, MaxLen)
    /\ key = None
    /\ IdleMap /\ IdleWeek /\ IdleMain

ExtractKey ==
    /\ pc = "extract"
    /\ key' = extract_number_from_filename(filename)
    /\ pc' = "extracted"
    /\ UNCHANGED <<filename, mapVars, weekVars, mainVars>>

KeyNext == ExtractKey

SpecKey == KeyInit /\ [][KeyNext]_vars

----------------------------------------------------------------------------
(* C2: the reference for extract_number_from_filename *)

HasDigit(s) == \E i \in 1..Len(s) : IsDigit(s[i])

\* the stem, read off a split name = stem . "." . ext with a non-empty,
\* dot-free ext and a non-empty stem; a name with no such split is its own stem
RefStem(name) ==
    LET splits == {i \in 2..(Len(name) - 1) :
                       /\ name[i] = "."
                       /\ \A j \in (i+1)..Len(name) : name[j] # "."}
    IN  IF splits = {} THEN name
        ELSE SubSeq(name, 1, (CHOOSE i \in splits : TRUE) - 1)

\* the stem when everything from the last dot on counts as the extension
RefStemAnyDot(name) ==
    IF \E i \in 1..Len(name) : name[i] = "."
    THEN SubSeq(name, 1, (CHOOSE i \in 1..Len(name) :
                              name[i] = "." /\ \A j \in 1..Len(name) : name[j] = "." => j <= i) - 1)
    ELSE name

RECURSIVE Pow10(_)
Pow10(n) == IF n = 0 THEN 1 ELSE 10 * Pow10(n - 1)

RECURSIVE SumOver(_, _, _)
SumOver(s, b, e) ==
    IF b > e THEN 0 ELSE DigitVal(s[b]) * Pow10(e - b) + SumOver(s, b + 1, e)

\* the integer value of the last maximal run of digits of s (s has a digit)
LastRunValue(s) ==
    LET e == CHOOSE i \in 1..Len(s) :
                 IsDigit(s[i]) /\ \A j \in (i+1)..Len(s) : ~IsDigit(s[j])
        b == CHOOSE i \in 1..e :
                 /\ \A j \in i..e : IsDigit(s[j])
                 /\ (i = 1 \/ ~IsDigit(s[i - 1]))
    IN  SumOver(s, b, e)

\* C2: extract_sequence_key equals the reference: with the extension stripped
\* (under either reading of "extension"), a stem that has a digit run gives the
\* integer value of its last maximal run, leading zeros parsed by value; a stem
\* with no digit, and so a filename with no digit, gives undefined.
C2_KeyIsLastDigitRun ==
    pc = "extracted" =>
        /\ \A st \in {RefStem(filename), RefStemAnyDot(filename)} :
               HasDigit(st) => key = Some(LastRunValue(st))
        /\ ~HasDigit(RefStem(filename)) => key = None
        /\ ~HasDigit(filename) => key = None

\* C2 witness: "1a07" has the runs 1 and 07, and its key is 7
C2_Witness ==
    /\ pc = "extracted"
    /\ filename = <<"1", "a", "0", "7">>
    /\ key = Some(7)

----------------------------------------------------------------------------
(* SpecMap: the computing half of organize_photos on every listing of one  *)
(* directory: find_photo_files, the two create_filename_mapping calls, and *)
(* the same calls again on the files under their new names.                *)

MaxEntries == 3     \* longest directory listing

\* the names a directory may hold: is_file is FALSE for a subdirectory
Entry(name, is_file) == [name |-> name, is_file |-> is_file]

B2_JPG   == <<"b", "2", ".", "J", "P", "G">>
A2_jpeg  == <<"a", "2", ".", "j", "p", "e", "g">>
C10_jpg  == <<"c", "1", "0", ".", "j", "p", "g">>
X_jpg    == <<"x", ".", "j", "p", "g">>
Y_Jpg    == <<"y", ".", "J", "p", "g">>
R07_CR3  == <<"r", "0", "7", ".", "C", "R", "3">>
R1_cr3   == <<"r", "1", ".", "c", "r", "3">>
N1_png   == <<"n", "1", ".", "p", "n", "g">>
N5       == <<"n", "5">>
D_jpg    == <<"d", ".", "j", "p", "g">>

DirEntries == {
    Entry(B2_JPG, TRUE), Entry(A2_jpeg, TRUE), Entry(C10_jpg, TRUE),
    Entry(X_jpg, TRUE), Entry(Y_Jpg, TRUE),
    Entry(R07_CR3, TRUE), Entry(R1_cr3, TRUE),
    Entry(N1_png, TRUE), Entry(N5, TRUE),
    Entry(D_jpg, FALSE) }

\* --prefix: absent, empty, plain, or with a digit and a dot of its own
Prefixes == {None, Some(<<>>), Some(<<"p">>), Some(<<"v", "1", ".", "5">>)}

\* the listings of a directory: its entries have distinct names, in any order
RECURSIVE ListingsUpTo(_, _)
ListingsUpTo(E, n) ==
    IF n = 0 THEN {<<>>}
    ELSE LET shorter == ListingsUpTo(E, n - 1)
         IN  shorter \cup
             {Append(l, e) : l \in shorter,
                             e \in E}

Distinct(l) == \A i, j \in 1..Len(l) : i # j => l[i].name # l[j].name

MapInit ==
    /\ pc = "find_photo_files"
    /\ listing \in {l \in ListingsUpTo(DirEntries, MaxEntries) : Distinct(l)}
    /\ prefix \in Prefixes
    /\ jpeg_files = <<>> /\ cr3_files = <<>>
    /\ jpeg_mapping = <<>> /\ cr3_mapping = <<>>
    /\ jpeg_remapping = <<>> /\ cr3_remapping = <<>>
    /\ IdleKey /\ IdleWeek /\ IdleMain

\* cli.py 441-445
FindPhotoFiles ==
    /\ pc = "find_photo_files"
    /\ LET found == find_photo_files(listing)
       IN  /\ jpeg_files' = found.jpeg
           /\ cr3_files' = found.cr3
           /\ pc' = IF found.jpeg = <<>> /\ found.cr3 = <<>>
                    THEN "nothing_found" ELSE "create_mapping"
    /\ UNCHANGED <<listing, prefix, jpeg_mapping, cr3_mapping,
                   jpeg_remapping, cr3_remapping, keyVars, weekVars, mainVars>>

\* cli.py 452-453
CreateMappings ==
    /\ pc = "create_mapping"
    /\ jpeg_mapping' = create_filename_mapping(jpeg_files, prefix)
    /\ cr3_mapping' = create_filename_mapping(cr3_files, prefix)
    /\ pc' = "mapped"
    /\ UNCHANGED <<listing, prefix, jpeg_files, cr3_files,
                   jpeg_remapping, cr3_remapping, keyVars, weekVars, mainVars>>

\* the files under their new names, in the enumeration order of fs
Renamed(fs, m) == [i \in 1..Len(fs) |-> m[fs[i]]]

\* create_filename_mapping run again on the renamed files, same prefix
Remap ==
    /\ pc = "mapped"
    /\ jpeg_remapping' = create_filename_mapping(Renamed(jpeg_files, jpeg_mapping), prefix)
    /\ cr3_remapping' = create_filename_mapping(Renamed(cr3_files, cr3_mapping), prefix)
    /\ pc' = "remapped"
    /\ UNCHANGED <<listing, prefix, jpeg_files, cr3_files,
                   jpeg_mapping, cr3_mapping, keyVars, weekVars, mainVars>>

MapNext == FindPhotoFiles \/ CreateMappings \/ Remap

SpecMap == MapInit /\ [][MapNext]_vars

----------------------------------------------------------------------------
(* References for the claims about SpecMap *)

\* the extension: what RefStem leaves of the name
RefExt(name) == SubSeq(name, Len(RefStem(name)) + 1, Len(name))

\* two characters, two strings, that differ at most in letter case
SameCharUpToCase(c, d) ==
    \/ c = d
    \/ \E i \in 1..Len(UpperChars) :
           {c, d} = {UpperChars[i], LowerChars[i]}

SameUpToCase(a, b) ==
    /\ Len(a) = Len(b)
    /\ \A i \in 1..Len(a) : SameCharUpToCase(a[i], b[i])

InputFiles == {listing[i].name : i \in {j \in 1..Len(listing) : listing[j].is_file}}

Occurrences(seq, x) == Cardinality({i \in 1..Len(seq) : seq[i] = x})

\* the category the output gives a file
CategoryOf(f) ==
    IF Occurrences(jpeg_files, f) > 0 THEN "jpeg"
    ELSE IF Occurrences(cr3_files, f) > 0 THEN "raw"
    ELSE "unclassified"

\* the files whose extension is in neither configured set, whatever its case
NeitherExt ==
    {f \in InputFiles :
        \A e \in jpeg_extensions \cup cr3_extensions : ~SameUpToCase(RefExt(f), e)}

\* C1: find_photo_files partitions the files of a flat listing: every input file
\* is in exactly one of jpeg, raw, unclassified (and once); jpeg and raw are
\* disjoint and hold input files only; the three sizes sum to the number of
\* input files; extensions that differ only in letter case get the same category.
C1_ClassifyPartitions ==
    pc # "find_photo_files" =>
        /\ \A f \in InputFiles :
               Occurrences(jpeg_files, f) + Occurrences(cr3_files, f)
                   = (IF f \in NeitherExt THEN 0 ELSE 1)
        /\ \A i \in 1..Len(jpeg_files) : jpeg_files[i] \in InputFiles
        /\ \A i \in 1..Len(cr3_files) : cr3_files[i] \in InputFiles
        /\ \A i \in 1..Len(jpeg_files), j \in 1..Len(cr3_files) :
               jpeg_files[i] # cr3_files[j]
        /\ Len(jpeg_files) + Len(cr3_files) + Cardinality(NeitherExt)
               = Cardinality(InputFiles)
        /\ \A f, g \in InputFiles :
               SameUpToCase(RefExt(f), RefExt(g)) => CategoryOf(f) = CategoryOf(g)

\* C1 witness: a listing with .JPG, .jpg and .CR3 files, classified
C1_Witness ==
    /\ pc = "create_mapping"
    /\ listing = <<Entry(B2_JPG, TRUE), Entry(R07_CR3, TRUE), Entry(X_jpg, TRUE)>>
    /\ jpeg_files = <<B2_JPG, X_jpg>>
    /\ cr3_files = <<R07_CR3>>

\* the sequence key of the reference of C2
RefKey(name) ==
    IF HasDigit(RefStem(name)) THEN Some(LastRunValue(RefStem(name))) ELSE None

\* fs[j] comes before fs[i] in the stable order by sequence key, undefined last
RefBefore(fs, j, i) ==
    LET kj == RefKey(fs[j])
        ki == RefKey(fs[i])
    IN  \/ kj # None /\ ki = None
        \/ kj # None /\ ki # None /\ kj[1] < ki[1]
        \/ (kj = ki) /\ j < i

RefRank(fs, i) == 1 + Cardinality({j \in 1..Len(fs) : RefBefore(fs, j, i)})

\* an index below 10000 as four decimal digits
RefFourDigits(i) ==
    <<DigitChars[((i \div 1000) % 10) + 1], DigitChars[((i \div 100) % 10) + 1],
      DigitChars[((i \div 10) % 10) + 1], DigitChars[(i % 10) + 1]>>

PrefixGiven == prefix # None /\ prefix # Some(<<>>)

RefName(fs, i) ==
    prefix[1] \o <<"-">> \o RefFourDigits(RefRank(fs, i)) \o Lower(RefExt(fs[i]))

MappingIsReference(fs, m) ==
    /\ fs = <<>> => m = <<>>
    /\ PrefixGiven => \A i \in 1..Len(fs) : m[fs[i]] = RefName(fs, i)
    /\ ~PrefixGiven => \A i \in 1..Len(fs) : m[fs[i]] = fs[i]

\* C3: with a non-empty prefix the file at position i of the stable order by
\* sequence key (undefined last, ties in input order) is named
\* {prefix}-{i as 4 digits}{lowercased extension}; with no prefix every file
\* maps to its own filename; an empty input gives an empty mapping.
C3_MappingFollowsStableOrder ==
    pc \in {"mapped", "remapped"} =>
        /\ MappingIsReference(jpeg_files, jpeg_mapping)
        /\ MappingIsReference(cr3_files, cr3_mapping)

\* C3 witness: keys 10, 2, undefined in input order; the key-2 file is first
C3_Witness ==
    /\ pc = "mapped"
    /\ prefix = Some(<<"p">>)
    /\ jpeg_files = <<C10_jpg, A2_jpeg, X_jpg>>
    /\ cr3_files = <<>> /\ cr3_mapping = <<>>
    /\ jpeg_mapping[A2_jpeg] = <<"p", "-", "0", "0", "0", "1", ".", "j", "p", "e", "g">>
    /\ jpeg_mapping[C10_jpg] = <<"p", "-", "0", "0", "0", "2", ".", "j", "p", "g">>
    /\ jpeg_mapping[X_jpg] = <<"p", "-", "0", "0", "0", "3", ".", "j", "p", "g">>

RangeOf(m) == {m[f] : f \in DOMAIN m}

SeqSet(seq) == {seq[i] : i \in 1..Len(seq)}

MappingIsBijection(fs, m) ==
    /\ DOMAIN m = SeqSet(fs)
    /\ Cardinality(DOMAIN m) = Len(fs)
    /\ Cardinality(RangeOf(m)) = Len(fs)
    /\ \A f, g \in DOMAIN m : f # g => m[f] # m[g]

\* C4: the mapping is a bijection, prefix given or not: its keys are the input
\* files, each once; there are as many output names as input files; no two
\* files get the same output name.
C4_MappingIsBijection ==
    pc \in {"mapped", "remapped"} =>
        /\ MappingIsBijection(jpeg_files, jpeg_mapping)
        /\ MappingIsBijection(cr3_files, cr3_mapping)

\* C4 witness: three files with no sequence key between two of them to tell
\* them apart (x.jpg, y.Jpg) get three names
C4_Witness ==
    /\ pc = "mapped"
    /\ PrefixGiven
    /\ jpeg_files = <<Y_Jpg, B2_JPG, X_jpg>>
    /\ Cardinality(RangeOf(jpeg_mapping)) = 3

RemapReproduces(fs, m, m2) ==
    /\ DOMAIN m2 = RangeOf(m)
    /\ \A f \in DOMAIN m : m2[m[f]] = m[f]

\* C5: with every file renamed to the name the mapping gives it, the mapping
\* built again with the same prefix, on the same files in the same enumeration
\* order, gives every file the name it already carries.
C5_RemapReproducesNames ==
    pc = "remapped" =>
        /\ RemapReproduces(jpeg_files, jpeg_mapping, jpeg_remapping)
        /\ RemapReproduces(cr3_files, cr3_mapping, cr3_remapping)

\* C5 witness: files listed out of key order, renamed with a prefix that has
\* digits of its own, and mapped again
C5_Witness ==
    /\ pc = "remapped"
    /\ prefix = Some(<<"v", "1", ".", "5">>)
    /\ jpeg_files = <<C10_jpg, B2_JPG>>
    /\ cr3_files = <<R07_CR3>>
    /\ jpeg_mapping[C10_jpg] = <<"v", "1", ".", "5", "-", "0", "0", "0", "2", ".", "j", "p", "g">>
    /\ jpeg_remapping[jpeg_mapping[C10_jpg]] = jpeg_mapping[C10_jpg]

----------------------------------------------------------------------------
(* SpecWeek: calculate_week_number on the timestamps of a span of years,   *)
(* one file after another, each later than the one before.                 *)

YearSpan == 1       \* the timestamps run from 2024 to 2024 + YearSpan

Hours == {0, 23}

DateTimes ==
    {DateTime(y, m, d, h) :
        y \in 2024..(2024 + YearSpan), m \in 1..12, d \in 1..31, h \in Hours}

ValidDateTimes == {dt \in DateTimes : dt.day <= DaysInMonth(dt.year, dt.month)}

WeekInit ==
    /\ pc = "week"
    /\ date \in ValidDateTimes
    /\ week_number = 0
    /\ IdleKey /\ IdleMap /\ IdleMain

\* cli.py 271, on the first file
CalculateWeek ==
    /\ pc = "week"
    /\ week_number' = calculate_week_number(date)
    /\ pc' = "week_done"
    /\ UNCHANGED <<date, keyVars, mapVars, mainVars>>

\* cli.py 271, on a file with a later timestamp
CalculateLaterWeek ==
    /\ pc = "week_done"
    /\ \E later \in ValidDateTimes :
           /\ DateTimeLess(date, later)
           /\ date' = later
           /\ week_number' = calculate_week_number(later)
    /\ UNCHANGED <<pc, keyVars, mapVars, mainVars>>

WeekNext == CalculateWeek \/ CalculateLaterWeek

SpecWeek == WeekInit /\ [][WeekNext]_vars

\* the number of the day, counted year by year and month by month
RECURSIVE RefDaysOfYearsBefore(_)
RefDaysOfYearsBefore(y) ==
    IF y <= 2024 THEN 0
    ELSE (IF IsLeap(y - 1) THEN 366 ELSE 365) + RefDaysOfYearsBefore(y - 1)

RECURSIVE RefDaysOfMonthsBefore(_, _)
RefDaysOfMonthsBefore(y, m) ==
    IF m = 1 THEN 0 ELSE DaysInMonth(y, m - 1) + RefDaysOfMonthsBefore(y, m - 1)

\* days since 2024-01-01
RefDayNumber(dt) ==
    RefDaysOfYearsBefore(dt.year) + RefDaysOfMonthsBefore(dt.year, dt.month) + dt.day - 1

\* 2024-11-13 is day 317 of 2024, counted from 0: 31+29+31+30+31+30+31+31+30+31 + 12
RefAnchorDay == RefDayNumber(DateTime(2024, 11, 13, 0))

\* floor(x / 7): the q with 7q <= x < 7q + 7
RefFloorDiv7(x) == CHOOSE q \in -200..200 : 7 * q <= x /\ x < 7 * q + 7

RefWeek(dt) ==
    LET w == RefFloorDiv7(RefDayNumber(dt) - RefAnchorDay) + 1
    IN  IF w < 1 THEN 1 ELSE w

C6_WeekValue ==
    pc = "week_done" =>
        /\ week_number = RefWeek(date)
        /\ week_number >= 1
        /\ (date.year = 2024 /\ date.month = 11 /\ date.day \in 13..19) => week_number = 1
        /\ (date.year = 2024 /\ date.month = 11 /\ date.day = 20) => week_number = 2
        /\ (date.year = 2024 /\ (date.month < 11 \/ (date.month = 11 /\ date.day < 13)))
               => week_number = 1

C6_WeekStep ==
    (pc = "week_done" /\ pc' = "week_done") => week_number' >= week_number

\* C6: the week index is max(1, floor((date - anchor) / 7 days) + 1) on calendar
\* dates, the time of day ignored: 2024-11-13..19 give 1, 2024-11-20 gives 2,
\* every date before the anchor gives 1; it is always >= 1; and a later
\* timestamp never gets a smaller week index.
C6_WeekIndex == [](C6_WeekValue) /\ [][C6_WeekStep]_vars

\* C6 witness: 2024-11-20 at 23h is in week 2
C6_Witness ==
    /\ pc = "week_done"
    /\ date = DateTime(2024, 11, 20, 23)
    /\ week_number = 2

----------------------------------------------------------------------------
(* SpecMain: main() run on a command line and a filesystem: the import     *)
(* pass (scan, filter, copy, organize each week) or the organize pass      *)
(* (classify, map, move). Transfers may fail; stat() may fail.             *)

MaxFiles == 2       \* most files in the source tree, or in the target directory
MaxFailures == 2    \* most transfers that fail in one run

SrcName == <<"s", "r", "c">>
SubName == <<"s", "u", "b">>
CwdName == <<"c", "w", "d">>
TgtName == <<"t", "g", "t">>

SourcePath == <<SrcName>>
CwdPath    == <<CwdName>>
TargetPath == <<TgtName>>

FileNode(path) == Node(path, "file", path)

\* the files a source tree may hold: the same filename at two levels, a raw
\* file, a png, and a file that is no image
SourceFilePaths == {
    <<SrcName, B2_JPG>>, <<SrcName, SubName, B2_JPG>>,
    <<SrcName, R1_cr3>>, <<SrcName, N1_png>>, <<SrcName, N5>> }

SourceTrees ==
    {{DirNode(SourcePath)} \cup {FileNode(q) : q \in P}
        \cup (IF \E q \in P : Len(q) = 3 THEN {DirNode(<<SrcName, SubName>>)} ELSE {}) :
     P \in {Q \in SUBSET SourceFilePaths : Cardinality(Q) <= MaxFiles}}

\* the entries a directory given to organize may hold
TargetNodes == {
    FileNode(<<TgtName, B2_JPG>>), FileNode(<<TgtName, A2_jpeg>>),
    FileNode(<<TgtName, X_jpg>>), FileNode(<<TgtName, R1_cr3>>),
    FileNode(<<TgtName, N1_png>>), DirNode(<<TgtName, D_jpg>>) }

TargetTrees ==
    {{DirNode(TargetPath)} \cup Q :
     Q \in {R \in SUBSET TargetNodes : Cardinality(R) <= MaxFiles}}

\* --after: absent, 2024-12-01, or a string strptime rejects
AfterArgs == {None,
              Some(<<"2", "0", "2", "4", "-", "1", "2", "-", "0", "1">>),
              Some(<<"1", "2", "/", "1">>)}

PrefixArgs == {None, Some(<<"p">>)}

\* what stat() may say of a file: it raises; Thursday 2024-11-07 noon, before
\* the first week; Wednesday 2024-11-20 (changed later); Sunday 2024-12-01
\* 00:00 (created later); Wednesday 2024-12-04
StatResults == {
    None,
    Some(Stat(DateTime(2024, 11, 7, 12), DateTime(2024, 11, 7, 12))),
    Some(Stat(DateTime(2024, 11, 20, 9), DateTime(2024, 12, 25, 9))),
    Some(Stat(DateTime(2024, 12, 4, 9), DateTime(2024, 12, 1, 0))),
    Some(Stat(DateTime(2024, 12, 4, 9), DateTime(2024, 12, 4, 9))) }

ImportArgs ==
    [command : {"import"}, source : {SourcePath, <<SrcName, N5>>},
     directory : {<<>>}, weekly : BOOLEAN, after : AfterArgs,
     organize : BOOLEAN, prefix : PrefixArgs, dry_run : BOOLEAN]

OrganizeArgs ==
    [command : {"organize"}, source : {<<>>},
     directory : {TargetPath, <<TgtName, X_jpg>>}, weekly : {FALSE}, after : {None},
     organize : {FALSE}, prefix : PrefixArgs, dry_run : BOOLEAN]

MainInit ==
    /\ pc = "main"
    /\ \/ /\ args \in ImportArgs
          /\ filesystem \in {tree \cup {DirNode(CwdPath)} : tree \in SourceTrees}
       \/ /\ args \in OrganizeArgs
          /\ filesystem \in TargetTrees
    /\ IdleImport /\ IdleOrg /\ attempts = <<>>
    /\ IdleKey /\ IdleMap /\ IdleWeek

\* after_datetime, once parsed
AfterDatetime == IF args.after = None THEN None ELSE Strptime(args.after[1])

Failures == Cardinality({i \in 1..Len(attempts) : ~attempts[i].ok})

\* how a transfer may end
TransferOutcomes == IF Failures < MaxFailures THEN {TRUE, FALSE} ELSE {TRUE}

Attempt(op, src, dst, ok) == [op |-> op, src |-> src, dst |-> dst, ok |-> ok]

\* where organize_photos returns to
ReturnPc == IF args.command = "import" THEN "organize_week" ELSE "done"

\* cli.py 603-611, 197-233: validate, parse --after, scan the source
ImportStart ==
    /\ pc = "main" /\ args.command = "import"
    /\ IF \/ ~Exists(filesystem, args.source)
          \/ ~IsDir(filesystem, args.source)
          \/ (args.after # None /\ Strptime(args.after[1]) = None)
       THEN /\ pc' = "exit"
            /\ UNCHANGED image_files
       ELSE \E order \in Orderings({n \in Below(filesystem, args.source) : IsImageFile(n)}) :
                /\ image_files' = [i \in 1..Len(order) |-> order[i].path]
                /\ pc' = IF Len(order) = 0 THEN "done" ELSE "filter"
    /\ UNCHANGED <<args, filesystem, idx, file_date, filtered_files, weekly_groups,
                   warnings, copy_weeks, copy_week_idx, copy_idx, created_week_dirs,
                   organize_idx, orgVars, attempts, keyVars, mapVars, weekVars>>

\* cli.py 250-277: one turn of the filtering loop
FilterFile ==
    /\ pc = "filter" /\ idx < Len(image_files)
    /\ \E st \in StatResults :
        LET file_path == image_files[idx + 1]
            fdate == get_file_date(st)
            verdict == filter_file(fdate, AfterDatetime, args.weekly)
        IN  /\ file_date' = fdate
            /\ warnings' = IF verdict = "warn" THEN warnings + 1 ELSE warnings
            /\ filtered_files' = IF verdict = "keep"
                                 THEN Append(filtered_files, file_path)
                                 ELSE filtered_files
            /\ weekly_groups' = IF verdict = "keep"
                                THEN group_add(weekly_groups,
                                               calculate_week_number(fdate[1]), file_path)
                                ELSE weekly_groups
    /\ idx' = idx + 1
    /\ UNCHANGED <<pc, args, filesystem, image_files, copy_weeks, copy_week_idx,
                   copy_idx, created_week_dirs, organize_idx, orgVars, attempts,
                   keyVars, mapVars, weekVars>>

\* cli.py 279-313: nothing kept, or the report and the dry-run return
FilterDone ==
    /\ pc = "filter" /\ idx = Len(image_files)
    /\ IF filtered_files = <<>>
       THEN pc' = "done" /\ UNCHANGED copy_weeks
       ELSE /\ copy_weeks' = SortedKeys(DOMAIN weekly_groups)
            /\ pc' = after_report(args.dry_run)
    /\ UNCHANGED <<args, filesystem, image_files, idx, file_date, filtered_files,
                   weekly_groups, warnings, copy_week_idx, copy_idx, created_week_dirs,
                   organize_idx, orgVars, attempts, keyVars, mapVars, weekVars>>

WeekDir(week_num) == Append(CwdPath, WeekDirName(week_num))

\* cli.py 327-332: the next week's directory
CopyWeekDir ==
    /\ pc = "copy_week" /\ copy_week_idx < Len(copy_weeks)
    /\ LET week_num == copy_weeks[copy_week_idx + 1]
           week_dir == WeekDir(week_num)
       IN  /\ filesystem' = Mkdir(filesystem, week_dir)
           /\ created_week_dirs' = Append(created_week_dirs, week_dir)
    /\ copy_week_idx' = copy_week_idx + 1
    /\ copy_idx' = 0
    /\ pc' = "copy_file"
    /\ UNCHANGED <<args, image_files, idx, file_date, filtered_files, weekly_groups,
                   warnings, copy_weeks, organize_idx, orgVars, attempts,
                   keyVars, mapVars, weekVars>>

\* cli.py 334-342: one file of the week, copied or not
CopyFile ==
    /\ pc = "copy_file"
    /\ LET week_num == copy_weeks[copy_week_idx]
           week_dir == WeekDir(week_num)
           file_path == weekly_groups[week_num][copy_idx + 1]
           destination == Append(week_dir, BaseName(file_path))
           next_pc == IF copy_idx + 1 < Len(weekly_groups[week_num])
                      THEN "copy_file" ELSE "copy_week"
       IN  \E ok \in TransferOutcomes :
               /\ filesystem' = IF ok THEN Copy2(filesystem, file_path, destination)
                                ELSE filesystem
               /\ attempts' = Append(attempts, Attempt("copy", file_path, destination, ok))
               /\ pc' = after_transfer(ok, next_pc)
    /\ copy_idx' = copy_idx + 1
    /\ UNCHANGED <<args, image_files, idx, file_date, filtered_files, weekly_groups,
                   warnings, copy_weeks, copy_week_idx, created_week_dirs,
                   organize_idx, orgVars, keyVars, mapVars, weekVars>>

\* cli.py 344-345, 386-387: the copy loop is over
CopyDone ==
    /\ pc = "copy_week" /\ copy_week_idx = Len(copy_weeks)
    /\ pc' = IF args.organize THEN "organize_week" ELSE "done"
    /\ UNCHANGED <<args, filesystem, importVars, orgVars, attempts,
                   keyVars, mapVars, weekVars>>

\* cli.py 359-372: organize_photos(str(week_dir), prefix=week_prefix, dry_run=False)
OrganizeWeek ==
    /\ pc = "organize_week" /\ organize_idx < Len(created_week_dirs)
    /\ LET week_dir == created_week_dirs[organize_idx + 1]
           week_num == ParseInt(SplitLast(BaseName(week_dir)))
       IN  /\ target_path' = week_dir
           /\ prefix' = IF args.prefix # None /\ args.prefix[1] # <<>>
                        THEN Some(WeekPrefix(args.prefix[1], week_num))
                        ELSE None
    /\ org_dry_run' = FALSE
    /\ organize_idx' = organize_idx + 1
    /\ pc' = "organize_start"
    /\ UNCHANGED <<args, filesystem, image_files, idx, file_date, filtered_files,
                   weekly_groups, warnings, copy_weeks, copy_week_idx, copy_idx,
                   created_week_dirs, move_idx, attempts, listing, jpeg_files,
                   cr3_files, jpeg_mapping, cr3_mapping, jpeg_remapping,
                   cr3_remapping, keyVars, weekVars>>

\* cli.py 359, 386-387: every week is organized
OrganizeWeeksDone ==
    /\ pc = "organize_week" /\ organize_idx = Len(created_week_dirs)
    /\ pc' = "done"
    /\ UNCHANGED <<args, filesystem, importVars, orgVars, attempts,
                   keyVars, mapVars, weekVars>>

\* cli.py 612-613: organize_photos(args.directory, prefix=args.prefix, dry_run=args.dry_run)
OrganizeCommand ==
    /\ pc = "main" /\ args.command = "organize"
    /\ target_path' = args.directory
    /\ prefix' = args.prefix
    /\ org_dry_run' = args.dry_run
    /\ pc' = "organize_start"
    /\ UNCHANGED <<args, filesystem, importVars, move_idx, attempts, listing,
                   jpeg_files, cr3_files, jpeg_mapping, cr3_mapping, jpeg_remapping,
                   cr3_remapping, keyVars, weekVars>>

JpgDir == Append(target_path, JPG)
RawDir == Append(target_path, RAW)

\* cli.py 430-497: validate, classify, map; a dry run returns, a real run
\* makes the subdirectories it needs
OrganizeStart ==
    /\ pc = "organize_start"
    /\ IF ~Exists(filesystem, target_path) \/ ~IsDir(filesystem, target_path)
       THEN /\ pc' = "exit"
            /\ UNCHANGED <<filesystem, listing, jpeg_files, cr3_files,
                           jpeg_mapping, cr3_mapping>>
       ELSE \E order \in Orderings(Children(filesystem, target_path)) :
            LET entries == [i \in 1..Len(order) |->
                               Entry(BaseName(order[i].path), order[i].kind = "file")]
                found == find_photo_files(entries)
                nothing == found.jpeg = <<>> /\ found.cr3 = <<>>
            IN  /\ listing' = entries
                /\ jpeg_files' = found.jpeg
                /\ cr3_files' = found.cr3
                /\ jpeg_mapping' = IF nothing THEN jpeg_mapping
                                   ELSE create_filename_mapping(found.jpeg, prefix)
                /\ cr3_mapping' = IF nothing THEN cr3_mapping
                                  ELSE create_filename_mapping(found.cr3, prefix)
                /\ filesystem' =
                       IF nothing \/ org_dry_run THEN filesystem
                       ELSE LET with_jpg == IF found.jpeg # <<>>
                                            THEN Mkdir(filesystem, JpgDir) ELSE filesystem
                            IN  IF found.cr3 # <<>> THEN Mkdir(with_jpg, RawDir)
                                ELSE with_jpg
                /\ pc' = IF nothing \/ org_dry_run THEN ReturnPc
                         ELSE IF found.jpeg # <<>> THEN "move_jpeg" ELSE "move_cr3"
    /\ move_idx' = 0
    /\ UNCHANGED <<args, importVars, target_path, org_dry_run, prefix, attempts,
                   jpeg_remapping, cr3_remapping, keyVars, weekVars>>

\* cli.py 511-522: one JPEG file, moved or not
MoveJpeg ==
    /\ pc = "move_jpeg"
    /\ LET jpeg_file == MoveOrder(jpeg_files)[move_idx + 1]
           source == Append(target_path, jpeg_file)
           destination == Append(JpgDir, jpeg_mapping[jpeg_file])
           more == move_idx + 1 < Len(jpeg_files)
           next_pc == IF more THEN "move_jpeg"
                      ELSE IF cr3_files # <<>> THEN "move_cr3" ELSE ReturnPc
       IN  /\ \E ok \in TransferOutcomes :
                  /\ filesystem' = IF ok THEN Move(filesystem, source, destination)
                                   ELSE filesystem
                  /\ attempts' = Append(attempts, Attempt("move", source, destination, ok))
                  /\ pc' = after_transfer(ok, next_pc)
           /\ move_idx' = IF more THEN move_idx + 1 ELSE 0
    /\ UNCHANGED <<args, importVars, target_path, org_dry_run, keyVars, mapVars, weekVars>>

\* cli.py 525-536: one CR3 file, moved or not
MoveCr3 ==
    /\ pc = "move_cr3"
    /\ LET cr3_file == MoveOrder(cr3_files)[move_idx + 1]
           source == Append(target_path, cr3_file)
           destination == Append(RawDir, cr3_mapping[cr3_file])
           more == move_idx + 1 < Len(cr3_files)
           next_pc == IF more THEN "move_cr3" ELSE ReturnPc
       IN  /\ \E ok \in TransferOutcomes :
                  /\ filesystem' = IF ok THEN Move(filesystem, source, destination)
                                   ELSE filesystem
                  /\ attempts' = Append(attempts, Attempt("move", source, destination, ok))
                  /\ pc' = after_transfer(ok, next_pc)
           /\ move_idx' = IF more THEN move_idx + 1 ELSE 0
    /\ UNCHANGED <<args, importVars, target_path, org_dry_run, keyVars, mapVars, weekVars>>

MainNext ==
    \/ ImportStart \/ FilterFile \/ FilterDone
    \/ CopyWeekDir \/ CopyFile \/ CopyDone
    \/ OrganizeWeek \/ OrganizeWeeksDone
    \/ OrganizeCommand \/ OrganizeStart \/ MoveJpeg \/ MoveCr3

SpecMain == MainInit /\ [][MainNext]_vars

----------------------------------------------------------------------------
(* References for the claims about SpecMain *)

\* the weekday, counted from Monday 2024-01-01: 0 Monday ... 6 Sunday
RefWeekday(dt) == RefDayNumber(dt) % 7

RefIsWednesday(dt) == RefWeekday(dt) = 2
RefIsThursday(dt) == RefWeekday(dt) = 3

\* hours since 2024-01-01 00:00
RefHours(dt) == RefDayNumber(dt) * 24 + dt.hour

\* the configured minimum timestamp: none, or 2024-12-01 00:00
RefMinimum ==
    IF args.after = Some(<<"2", "0", "2", "4", "-", "1", "2", "-", "0", "1">>)
    THEN Some(DateTime(2024, 12, 1, 0)) ELSE None

\* the three conditions of the filter, on a resolved timestamp d (None: unresolved)
RefPasses(d) ==
    /\ d # None
    /\ RefMinimum = None \/ RefHours(d[1]) >= RefHours(RefMinimum[1])
    /\ ~args.weekly \/ RefIsWednesday(d[1])

InSomeBucket(groups, f) ==
    \E w \in DOMAIN groups : \E i \in 1..Len(groups[w]) : groups[w][i] = f

FilterTurn == pc = "filter" /\ idx' = idx + 1

C7_Step ==
    FilterTurn =>
        LET f == image_files[idx']
            d == file_date'
        IN  /\ InSomeBucket(weekly_groups', f) <=> RefPasses(d)
            /\ Occurrences(filtered_files', f) = (IF RefPasses(d) THEN 1 ELSE 0)
            /\ Len(filtered_files') = Len(filtered_files) + (IF RefPasses(d) THEN 1 ELSE 0)
            /\ warnings' = warnings + (IF d = None THEN 1 ELSE 0)
            /\ pc' = "filter"
            /\ (d # None /\ args.weekly /\ RefIsThursday(d[1]))
                   => ~InSomeBucket(weekly_groups', f) /\ filtered_files' = filtered_files
            /\ (d # None /\ RefMinimum # None
                    /\ d[1].year = 2024 /\ d[1].month = 11 /\ d[1].day = 20)
                   => ~InSomeBucket(weekly_groups', f) /\ filtered_files' = filtered_files

C7_AllProcessed ==
    pc \notin {"main", "exit", "filter"} => idx = Len(image_files)

----------------------------------------------------------------------------

CopySources ==
    LET copies == SelectSeq(attempts, LAMBDA a : a.op = "copy")
    IN  [i \in 1..Len(copies) |-> copies[i].src]

MoveSources(target) ==
    LET moves == SelectSeq(attempts, LAMBDA a : a.op = "move" /\ Parent(a.src) = target)
    IN  [i \in 1..Len(moves) |-> moves[i].src]

CopyLoopOver ==
    /\ args.command = "import" /\ ~args.dry_run /\ filtered_files # <<>>
    /\ pc \in {"organize_week", "organize_start", "move_jpeg", "move_cr3",
               "done", "crashed"}

OrganizeCallOver ==
    /\ target_path # <<>> /\ ~org_dry_run
    /\ pc \in {"organize_week", "done", "crashed"}

C8_State ==
    /\ \A f \in SeqSet(filtered_files) : Occurrences(CopySources, f) <= 1
    /\ \A i \in 1..Len(CopySources) : CopySources[i] \in SeqSet(filtered_files)
    /\ CopyLoopOver =>
           /\ \A f \in SeqSet(filtered_files) : Occurrences(CopySources, f) = 1
           /\ Len(CopySources) = Len(filtered_files)
    /\ target_path # <<>> =>
           \A i \in 1..Len(MoveSources(target_path)) :
               Occurrences(MoveSources(target_path), MoveSources(target_path)[i]) = 1
    /\ OrganizeCallOver =>
           /\ \A f \in SeqSet(jpeg_files) \cup SeqSet(cr3_files) :
                  Occurrences(MoveSources(target_path), Append(target_path, f)) = 1
           /\ Len(MoveSources(target_path)) = Len(jpeg_files) + Len(cr3_files)

C8_Step ==
    /\ pc \in {"copy_week", "copy_file"} =>
           weekly_groups' = weekly_groups /\ filtered_files' = filtered_files
    /\ pc \in {"move_jpeg", "move_cr3"} =>
           /\ jpeg_mapping' = jpeg_mapping /\ cr3_mapping' = cr3_mapping
           /\ jpeg_files' = jpeg_files /\ cr3_files' = cr3_files

\* C8: a transfer that fails does not abort the batch: once the copy loop, or
\* the move loops of one organize call, are over, every file of the pass has
\* been attempted exactly once, whichever attempts failed; no file is ever
\* attempted twice; and the buckets and the rename mappings do not change
\* while the transfers run.
C8_FailureDoesNotAbort == [](C8_State) /\ [][C8_Step]_vars

\* C8 witness: the first copy failed, the second was still made, and the week
\* was then organized
C8_Witness ==
    /\ pc = "done" /\ args.command = "import"
    /\ Len(attempts) = 3
    /\ attempts[1].op = "copy" /\ ~attempts[1].ok
    /\ attempts[2].op = "copy" /\ attempts[2].ok
    /\ attempts[3].op = "move"

----------------------------------------------------------------------------

C9_Step == args.dry_run => filesystem' = filesystem

C9_State ==
    args.dry_run => attempts = <<>> /\ created_week_dirs = <<>>

\* C9: with dry_run set, whatever the other options and the directory hold,
\* no step of import_photos or organize_photos changes the filesystem: no
\* directory is made and no copy or move is attempted.
C9_DryRunChangesNothing == [][C9_Step]_vars /\ [](C9_State)

\* C9 witness: a dry-run import with --organize that kept files, at its end
C9_Witness ==
    /\ pc = "done"
    /\ args.command = "import" /\ args.dry_run /\ args.organize
    /\ Len(filtered_files) = 2
    /\ filesystem \in {tree \cup {DirNode(CwdPath)} : tree \in SourceTrees}

----------------------------------------------------------------------------

Position(seq, x) == CHOOSE i \in 1..Len(seq) : seq[i] = x

InOrderOf(sub, seq) ==
    /\ \A i \in 1..Len(sub) : \E k \in 1..Len(seq) : seq[k] = sub[i]
    /\ \A i, j \in 1..Len(sub) : i < j => Position(seq, sub[i]) < Position(seq, sub[j])

RECURSIVE SumOfSizes(_, _)
SumOfSizes(groups, W) ==
    IF W = {} THEN 0
    ELSE LET w == CHOOSE x \in W : TRUE
         IN  Len(groups[w]) + SumOfSizes(groups, W \ {w})

C10_State ==
    /\ \A f \in SeqSet(filtered_files) :
           /\ Occurrences(filtered_files, f) = 1
           /\ Cardinality({<<w, i>> \in
                   UNION {{<<v, k>> : k \in 1..Len(weekly_groups[v])} : v \in DOMAIN weekly_groups} :
                   weekly_groups[w][i] = f}) = 1
    /\ \A w \in DOMAIN weekly_groups :
           /\ weekly_groups[w] # <<>>
           /\ \A i \in 1..Len(weekly_groups[w]) :
                  weekly_groups[w][i] \in SeqSet(filtered_files)
           /\ InOrderOf(weekly_groups[w], image_files)
    /\ InOrderOf(filtered_files, SubSeq(image_files, 1, idx))
    /\ Len(filtered_files) = SumOfSizes(weekly_groups, DOMAIN weekly_groups)

C10_Step ==
    FilterTurn =>
        LET f == image_files[idx']
            d == file_date'
        IN  IF RefPasses(d)
            THEN /\ RefWeek(d[1]) \in DOMAIN weekly_groups'
                 /\ weekly_groups'[RefWeek(d[1])][Len(weekly_groups'[RefWeek(d[1])])] = f
                 /\ filtered_files' = Append(filtered_files, f)
            ELSE /\ weekly_groups' = weekly_groups
                 /\ filtered_files' = filtered_files

\* C10: the filtered set and the buckets agree, whatever files the loop has
\* processed: a file that passes goes to the end of the bucket of its week
\* index and to the filtered set, a file that does not goes nowhere; every
\* filtered file is in exactly one bucket and once in the filtered set, every
\* bucketed file is a filtered one, the filtered count is the sum of the
\* bucket sizes, no bucket is empty, and each bucket is in discovery order.
C10_BucketsAgree == [](C10_State) /\ [][C10_Step]_vars

\* C10 witness: the loop is over with two files in one bucket
C10_Witness ==
    /\ pc = "copy_week" /\ copy_week_idx = 0
    /\ Len(filtered_files) = 2
    /\ \E w \in DOMAIN weekly_groups : weekly_groups[w] = filtered_files
    /\ idx = Len(image_files)

----------------------------------------------------------------------------

\* the copies of the pass that succeeded, in the order they were made
CopiesMade == SelectSeq(attempts, LAMBDA a : a.op = "copy" /\ a.ok)

\* the copy loop is running: nothing has been moved out of a week directory
CopyLoopRunning == pc \in {"copy_week", "copy_file"}

\* C11: in one import pass no two distinct source files are copied to the
\* same destination path: every bucketed source file that was copied has a
\* destination of its own inside its week directory, and while the copy loop
\* runs every copy made so far still holds the content of its own source, so
\* no earlier copy was overwritten by a later one.
C11_OwnDestination ==
    /\ \A i, j \in 1..Len(CopiesMade) :
           CopiesMade[i].src # CopiesMade[j].src
               => CopiesMade[i].dst # CopiesMade[j].dst
    /\ CopyLoopRunning =>
           \A i \in 1..Len(CopiesMade) :
               /\ IsFile(filesystem, CopiesMade[i].dst)
               /\ ContentAt(filesystem, CopiesMade[i].dst)
                      = ContentAt(filesystem, CopiesMade[i].src)

====
